---- MODULE Spec2Model ----
(***************************************************************************)
(* EmailPlugin (packages/email-plugin/src/plugin.ts): the dispatch of      *)
(* events to email handlers and the delivery of their results.             *)
(*                                                                         *)
(* JavaScript runs every callback to its next await without interruption,  *)
(* so one action of this model is one such run: the code between two       *)
(* awaits of onVendureBootstrap or of handleEvent, or one callback of a    *)
(* collaborator (event bus, job queue, worker, dev mailbox).  A promise    *)
(* that is being awaited is settled by an action of its own, whose         *)
(* parameter is the outcome.                                               *)
(***************************************************************************)
EXTENDS Naturals, Sequences, FiniteSets

\* ------------------------------------------------------------------ bounds
MaxChains == 2        \* handleEvent invocations in one run

\* Program constant: the concurrency given to createQueue.
Concurrency == 5

\* ------------------------------------------------------------------ values
\* Two event classes stand for the classes handlers listen to.
EventTypes == {"A", "B"}

\* handler.event and (handler instanceof EmailEventHandlerWithAsyncData).
Handler == [event : EventTypes, async : BOOLEAN]

RECURSIVE SeqsUpTo(_, _)
SeqsUpTo(S, n) ==
    IF n = 0 THEN {<<>>}
    ELSE LET shorter == SeqsUpTo(S, n - 1)
         IN  shorter \cup {Append(s, x) : s \in {t \in shorter : Len(t) = n - 1}, x \in S}

\* The handler lists of the model: one or two handlers.  The two event
\* classes are interchangeable, so the first handler listens to "A".
HandlerLists == {hs \in SeqsUpTo(Handler, 2) : hs # <<>> /\ hs[1].event = "A"}

\* Two values stand for the globalTemplateVars an options object can carry.
GlobalTemplateVars == {"v1", "v2"}

\* EmailPluginOptions | EmailPluginDevModeOptions: the dev-mode options carry
\* devMode: true and an optional mailboxPort and no transport; the others
\* carry a transport.
EmailPluginOptions ==
    { o \in [devMode : BOOLEAN, mailboxPort : BOOLEAN,
             transport : {"none", "testing", "smtp"}, handlers : HandlerLists,
             globalTemplateVars : GlobalTemplateVars] :
        IF o.devMode THEN o.transport = "none"
        ELSE ~o.mailboxPort /\ o.transport # "none" }

\* What a rejected promise (or a throw) carries: an Error object, or a value
\* without properties (undefined or null, as in Promise.reject()).
Thrown == {"Error", "nullish"}

VARIABLES
    options,           \* EmailPlugin.options (static)
    configured,        \* EmailPlugin.configure has run
    middleware,        \* the 'mailbox' entries of config.apiOptions.middleware
    bootOptions,       \* const options of onVendureBootstrap (line 185)
    devMailbox,        \* this.devMailbox: "undefined" | "serving" | "destroyed"
    jobQueue,          \* this.jobQueue is defined
    testingProcessor,  \* this.testingProcessor is defined
    bootPc,            \* position of onVendureBootstrap
    closed,            \* onVendureClose has run
    subscriptions,     \* the handlers subscribed to the event bus, in order
    events,            \* the event objects, in order of occurrence
    chains,            \* the handleEvent invocations, in order of their start
    jobs               \* the jobs of the 'send-email' queue, by the chain that added them

vars == <<options, configured, middleware, bootOptions, devMailbox, jobQueue,
          testingProcessor, bootPc, closed, subscriptions, events, chains, jobs>>

\* ------------------------------------------------------------ predicates
isDevModeOptions(o) == o.devMode

\* isDevModeOptions(options) && options.mailboxPort !== undefined
HasMailbox(o) == isDevModeOptions(o) /\ o.mailboxPort

\* !isDevModeOptions(options) && options.transport.type === 'testing'
UseTestingProcessor(o) == ~isDevModeOptions(o) /\ o.transport = "testing"

RECURSIVE SelectIdx(_, _, _)
\* The indices i >= from of s with s[i].event = tag, ascending.
SelectIdx(s, tag, from) ==
    IF from > Len(s) THEN <<>>
    ELSE IF s[from].event = tag THEN <<from>> \o SelectIdx(s, tag, from + 1)
    ELSE SelectIdx(s, tag, from + 1)

\* ---------------------------------------------------------------- Init
\* EmailPlugin.init(options) has set the options; the two values of
\* globalTemplateVars are interchangeable, so the first options carry "v1".
Init ==
    /\ options \in EmailPluginOptions
    /\ options.globalTemplateVars = "v1"
    /\ configured = FALSE
    /\ middleware = 0
    /\ bootOptions = options
    /\ devMailbox = "undefined"
    /\ jobQueue = FALSE
    /\ testingProcessor = FALSE
    /\ bootPc = "start"
    /\ closed = FALSE
    /\ subscriptions = <<>>
    /\ events = <<>>
    /\ chains = <<>>
    /\ jobs = [c \in 1..MaxChains |-> <<>>]

\* ---------------------------------------------------------- configure
\* Mutant: the route is registered for every dev-mode options object.
HasMailboxRouteAnyDevMode(o) == isDevModeOptions(o)

\* Line 173: isDevModeOptions(this.options) && this.options.mailboxPort !== undefined
HasMailboxRoute(o) == isDevModeOptions(o) /\ o.mailboxPort

\* EmailPlugin.configure, called once when the configuration is built, before
\* the plugin is bootstrapped: pushes the 'mailbox' proxy route or nothing.
Configure ==
    /\ ~configured
    /\ configured' = TRUE
    /\ middleware' = IF HasMailboxRoute(options) THEN middleware + 1 ELSE middleware
    /\ UNCHANGED <<options, bootOptions, devMailbox, jobQueue, testingProcessor, bootPc,
                   closed, subscriptions, events, chains, jobs>>

\* ------------------------------------------------- onVendureBootstrap
RECURSIVE FirstPerEvent(_, _)
\* Mutant: one subscription for every distinct event class, made for the
\* first handler of that class.
FirstPerEvent(hs, seen) ==
    IF hs = <<>> THEN <<>>
    ELSE IF Head(hs).event \in seen THEN FirstPerEvent(Tail(hs), seen)
    ELSE <<Head(hs)>> \o FirstPerEvent(Tail(hs), seen \cup {Head(hs).event})

SetupEventSubscribersPerType(hs) == FirstPerEvent(hs, {})

\* Mutant: the handlers are subscribed last to first.
SetupEventSubscribersReversed(hs) == [i \in 1..Len(hs) |-> hs[Len(hs) + 1 - i]]

\* setupEventSubscribers: one subscribe call for every handler of the list.
SetupEventSubscribers(hs) == hs

\* Lines 185-193: the dev mailbox, the subscriptions, then the await.
Bootstrap ==
    /\ configured
    /\ bootPc = "start"
    /\ bootOptions' = options
    /\ devMailbox' = IF HasMailbox(options) THEN "serving" ELSE devMailbox
    /\ subscriptions' = subscriptions \o SetupEventSubscribers(options.handlers)
    /\ bootPc' = "awaitSubs"
    /\ UNCHANGED <<options, configured, middleware, jobQueue, testingProcessor, closed,
                   events, chains, jobs>>

\* Mutant: the queue is created whatever the transport is.
SelectBackendBoth(created) ==
    /\ bootPc = "awaitSubs"
    /\ created
    /\ jobQueue' = TRUE
    /\ testingProcessor' = UseTestingProcessor(bootOptions)
    /\ bootPc' = IF UseTestingProcessor(bootOptions) THEN "awaitInit" ELSE "done"
    /\ UNCHANGED <<options, configured, middleware, bootOptions,
                   devMailbox, closed, subscriptions, events, chains, jobs>>

\* Lines 195-211, after the await of setupEventSubscribers: the backend.
\* created = FALSE is createQueue throwing.
SelectBackend(created) ==
    /\ bootPc = "awaitSubs"
    /\ IF UseTestingProcessor(bootOptions)
       THEN /\ created
            /\ testingProcessor' = TRUE
            /\ bootPc' = "awaitInit"
            /\ UNCHANGED jobQueue
       ELSE /\ jobQueue' = created
            /\ bootPc' = IF created THEN "done" ELSE "failed"
            /\ UNCHANGED testingProcessor
    /\ UNCHANGED <<options, configured, middleware, bootOptions,
                   devMailbox, closed, subscriptions, events, chains, jobs>>

\* Line 199: testingProcessor.init() settles.
InitSettle(ok) ==
    /\ bootPc = "awaitInit"
    /\ bootPc' = IF ok THEN "done" ELSE "failed"
    /\ UNCHANGED <<options, configured, middleware, bootOptions,
                   devMailbox, jobQueue, testingProcessor, closed,
                   subscriptions, events, chains, jobs>>

\* Mutant: the dev mailbox is destroyed only when the bootstrap had completed.
CloseAfterBootOnly ==
    /\ bootPc \in {"done", "failed"}
    /\ ~closed
    /\ closed' = TRUE
    /\ devMailbox' = IF devMailbox # "undefined" /\ bootPc = "done"
                     THEN "destroyed" ELSE devMailbox
    /\ UNCHANGED <<options, configured, middleware, bootOptions, jobQueue,
                   testingProcessor, bootPc, subscriptions, events, chains, jobs>>

\* Lines 215-219: onVendureClose, called by the host when the plugin is torn
\* down, after a bootstrap that completed or that failed.
Close ==
    /\ bootPc \in {"done", "failed"}
    /\ ~closed
    /\ closed' = TRUE
    /\ devMailbox' = IF devMailbox # "undefined" THEN "destroyed" ELSE devMailbox
    /\ UNCHANGED <<options, configured, middleware, bootOptions,
                   jobQueue, testingProcessor, bootPc, subscriptions,
                   events, chains, jobs>>

\* ------------------------------------------------------------ handleEvent
\* Mutant: handle is called and not awaited, the promise it returns is
\* handed on for delivery at once.
InvokeHandleNoAwait(ch, populated, overtaken) ==
    LET inv == [ch EXCEPT !.handled = @ + 1, !.dataAtHandle = populated,
                          !.overtaken = overtaken, !.gvars = options.globalTemplateVars]
    IN  IF jobQueue THEN [inv EXCEPT !.pc = "add", !.route = "add", !.add = "running"]
        ELSE IF testingProcessor
             THEN [inv EXCEPT !.pc = "process", !.route = "process", !.proc = "running"]
             ELSE [inv EXCEPT !.pc = "resolved", !.route = "dropped"]

\* Line 243: handler.handle(event, EmailPlugin.options.globalTemplateVars) is
\* invoked, the second argument read from the static options at that moment;
\* populated tells whether event.data is set at that moment, and overtaken how
\* many chains of the same event that started later have invoked handle before.
InvokeHandle(ch, populated, overtaken) ==
    [ch EXCEPT !.pc = "handle", !.handled = @ + 1, !.dataAtHandle = populated,
               !.overtaken = overtaken, !.gvars = options.globalTemplateVars]

\* Mutant: handle is invoked at once for every handler, the loader skipped.
StartChainSkipLoader(e, h, handler, populated) ==
    [ev |-> e, h |-> h, async |-> handler.async, pc |-> "handle",
     handled |-> 1, dataAtHandle |-> populated, result |-> "pending",
     route |-> "none", add |-> "none", proc |-> "none",
     logged |-> 0, logRecord |-> {}, failAt |-> "none", thrown |-> "none",
     overtaken |-> 0, gvars |-> options.globalTemplateVars]

\* Lines 233-243 up to the first await: an async-data handler calls its
\* loader, any other handler calls handle at once.
StartChain(e, h, handler, populated) ==
    LET ch == [ev |-> e, h |-> h, async |-> handler.async, pc |-> "load",
               handled |-> 0, dataAtHandle |-> FALSE, result |-> "pending",
               route |-> "none", add |-> "none", proc |-> "none",
               logged |-> 0, logRecord |-> {}, failAt |-> "none", thrown |-> "none",
               overtaken |-> 0, gvars |-> "none"]
    IN  IF handler.async THEN ch ELSE InvokeHandle(ch, populated, 0)

\* Line 253: what the logged record carries: e.message, the context
\* 'EmailPlugin' and e.stack.  The type taken from the handler on line 234 is
\* not among the arguments.
ErrorRecord == {"message", "context:EmailPlugin", "stack"}

\* Mutant: the catch block logs and throws the error again.
CatchRethrow(ch, e, at) ==
    [ch EXCEPT !.pc = "rejected", !.failAt = at, !.thrown = e,
               !.logged = IF e = "nullish" THEN @ ELSE @ + 1,
               !.logRecord = IF e = "nullish" THEN @ ELSE ErrorRecord]

\* Lines 252-254: Logger.error(e.message, 'EmailPlugin', e.stack).  Reading
\* e.message of undefined or null throws a TypeError inside the catch block:
\* nothing is logged and the promise of handleEvent rejects.
Catch(ch, e, at) ==
    IF e = "nullish"
    THEN [ch EXCEPT !.pc = "rejected", !.failAt = at, !.thrown = e]
    ELSE [ch EXCEPT !.pc = "resolved", !.failAt = at, !.thrown = e, !.logged = @ + 1,
                    !.logRecord = ErrorRecord]

\* Mutant: add and process are called and not awaited.
DeliverNoAwait(ch, jq, tp) ==
    IF jq THEN [ch EXCEPT !.pc = "resolved", !.route = "add", !.add = "running"]
    ELSE IF tp THEN [ch EXCEPT !.pc = "resolved", !.route = "process", !.proc = "running"]
    ELSE [ch EXCEPT !.pc = "resolved", !.route = "dropped"]

\* Lines 247-251: jobQueue.add(result), else testingProcessor.process(result),
\* else nothing at all.
Deliver(ch, jq, tp) ==
    IF jq THEN [ch EXCEPT !.pc = "add", !.route = "add", !.add = "running"]
    ELSE IF tp THEN [ch EXCEPT !.pc = "process", !.route = "process", !.proc = "running"]
    ELSE [ch EXCEPT !.pc = "resolved", !.route = "dropped"]

\* Mutant: the result of handle is handed on without the test on line 244.
AfterHandleNoTest(ch, res, jq, tp) ==
    Deliver([ch EXCEPT !.result = res], jq, tp)

\* Lines 243-251 after handle has returned res ("payload" or "none").
AfterHandle(ch, res, jq, tp) ==
    IF res = "none" THEN [ch EXCEPT !.pc = "resolved", !.result = "none"]
    ELSE Deliver([ch EXCEPT !.result = "payload"], jq, tp)

\* The subscriptions the event bus calls for an event of class tag, in the
\* order they were made: ofType(handler.event) of every handler.
Matching(subs, tag) == SelectIdx(subs, tag, 1)

\* eventBus publishes an event of class tag: every matching subscription's
\* callback runs handleEvent to its first await, one after the other.  An
\* event no subscription matches reaches no code of the plugin and is left out.
Publish(tag) ==
    /\ LET idx == Matching(subscriptions, tag)
           e == Len(events) + 1
           new == [k \in 1..Len(idx) |->
                      StartChain(e, idx[k], subscriptions[idx[k]], FALSE)]
       IN  /\ Len(idx) > 0
           /\ Len(chains) + Len(idx) <= MaxChains
           /\ events' = Append(events, [tag |-> tag, src |-> "bus", writes |-> 0])
           /\ chains' = chains \o new
    /\ UNCHANGED <<options, configured, middleware, bootOptions, devMailbox, jobQueue,
                   testingProcessor, bootPc, closed,
                   subscriptions, jobs>>

\* Mutant: the callback given to handleMockEvent runs handleEvent twice for
\* the one generated event.
MockEventTwice(h) ==
    /\ devMailbox = "serving"
    /\ h \in DOMAIN subscriptions
    /\ Len(chains) + 2 <= MaxChains
    /\ LET e == Len(events) + 1
           new == <<StartChain(e, h, subscriptions[h], FALSE),
                    StartChain(e, h, subscriptions[h], FALSE)>>
       IN  /\ events' = Append(events, [tag |-> subscriptions[h].event, src |-> "mock",
                                        writes |-> 0])
           /\ chains' = chains \o new
    /\ UNCHANGED <<options, configured, middleware, bootOptions, devMailbox, jobQueue,
                   testingProcessor, bootPc, closed, subscriptions, jobs>>

\* The dev mailbox calls the callback given to handleMockEvent with one
\* handler of the options and a generated event of its class.
MockEvent(h) ==
    /\ devMailbox = "serving"
    /\ h \in DOMAIN subscriptions
    /\ Len(chains) < MaxChains
    /\ LET e == Len(events) + 1
           new == <<StartChain(e, h, subscriptions[h], FALSE)>>
       IN  /\ events' = Append(events, [tag |-> subscriptions[h].event, src |-> "mock",
                                        writes |-> 0])
           /\ chains' = chains \o new
    /\ UNCHANGED <<options, configured, middleware, bootOptions, devMailbox, jobQueue,
                   testingProcessor, bootPc, closed,
                   subscriptions, jobs>>

\* The chains of the same event as chain c that started after c and have
\* invoked handle already.
Overtakers(c) ==
    {d \in DOMAIN chains : d > c /\ chains[d].ev = chains[c].ev /\ chains[d].handled > 0}

\* Mutant: one try/catch around all the handlers of an event, so a loader
\* that fails ends the chains of the same event that are still pending.
LoaderSettleSharedCatch(c, out) ==
    /\ c \in DOMAIN chains
    /\ chains[c].pc = "load"
    /\ IF out = "ok"
       THEN /\ events' = [events EXCEPT ![chains[c].ev].writes = @ + 1]
            /\ chains' = [chains EXCEPT ![c] = InvokeHandle(@, TRUE, Cardinality(Overtakers(c)))]
       ELSE /\ chains' = [d \in DOMAIN chains |->
                             IF d = c THEN Catch(chains[c], out, "loader")
                             ELSE IF chains[d].ev = chains[c].ev
                                     /\ chains[d].pc \in {"load", "handle"}
                                  THEN [chains[d] EXCEPT !.pc = "resolved"]
                                  ELSE chains[d]]
            /\ UNCHANGED events
    /\ UNCHANGED <<options, configured, middleware, bootOptions, devMailbox, jobQueue,
                   testingProcessor, bootPc, closed,
                   subscriptions, jobs>>

\* Lines 237-243: the loader's promise settles.  On success the result is
\* assigned to event.data and handle is invoked in the same run.
LoaderSettle(c, out) ==
    /\ c \in DOMAIN chains
    /\ chains[c].pc = "load"
    /\ IF out = "ok"
       THEN /\ events' = [events EXCEPT ![chains[c].ev].writes = @ + 1]
            /\ chains' = [chains EXCEPT ![c] = InvokeHandle(@, TRUE, Cardinality(Overtakers(c)))]
       ELSE /\ chains' = [chains EXCEPT ![c] = Catch(@, out, "loader")]
            /\ UNCHANGED <<events>>
    /\ UNCHANGED <<options, configured, middleware, bootOptions, devMailbox, jobQueue,
                   testingProcessor, bootPc, closed,
                   subscriptions, jobs>>

\* Mutant: the dispatcher runs the chains one at a time, so a chain goes on
\* after handle only when every chain started before it has ended.
HandleSettleSerial(c, out) ==
    /\ c \in DOMAIN chains
    /\ chains[c].pc = "handle"
    /\ \A d \in 1..(c - 1) : chains[d].pc \in {"resolved", "rejected"}
    /\ chains' = [chains EXCEPT ![c] =
                     IF out \in Thrown THEN Catch(@, out, "handle")
                     ELSE AfterHandle(@, out, jobQueue, testingProcessor)]
    /\ UNCHANGED <<options, configured, middleware, bootOptions, devMailbox, jobQueue,
                   testingProcessor, bootPc, closed, subscriptions, events, jobs>>

\* Lines 243-251: the promise of handle settles.
HandleSettle(c, out) ==
    /\ c \in DOMAIN chains
    /\ chains[c].pc = "handle"
    /\ chains' = [chains EXCEPT ![c] =
                     IF out \in Thrown THEN Catch(@, out, "handle")
                     ELSE AfterHandle(@, out, jobQueue, testingProcessor)]
    /\ UNCHANGED <<options, configured, middleware, bootOptions, devMailbox, jobQueue,
                   testingProcessor, bootPc, closed,
                   subscriptions, events, jobs>>

\* Line 248: the promise of jobQueue.add settles; on success the job is on
\* the queue.
AddSettle(c, out) ==
    /\ c \in DOMAIN chains
    /\ chains[c].add = "running"
    /\ IF out = "ok"
       THEN /\ jobs' = [jobs EXCEPT ![c] = Append(@, [state |-> "pending", worker |-> "none"])]
            /\ chains' = [chains EXCEPT ![c] =
                             [@ EXCEPT !.add = "ok",
                                       !.pc = IF @ = "add" THEN "resolved" ELSE @]]
       ELSE /\ chains' = [chains EXCEPT ![c] =
                             IF @.pc = "add" THEN Catch([@ EXCEPT !.add = "failed"], out, "add")
                             ELSE [@ EXCEPT !.add = "failed"]]
            /\ UNCHANGED jobs
    /\ UNCHANGED <<options, configured, middleware, bootOptions, devMailbox, jobQueue,
                   testingProcessor, bootPc, closed,
                   subscriptions, events>>

\* Line 250: the promise of testingProcessor.process settles.
ProcessSettle(c, out) ==
    /\ c \in DOMAIN chains
    /\ chains[c].proc = "running"
    /\ chains' = [chains EXCEPT ![c] =
                     IF out = "ok"
                     THEN [@ EXCEPT !.proc = "ok",
                                    !.pc = IF @ = "process" THEN "resolved" ELSE @]
                     ELSE IF @.pc = "process"
                          THEN Catch([@ EXCEPT !.proc = "failed"], out, "process")
                          ELSE [@ EXCEPT !.proc = "failed"]]
    /\ UNCHANGED <<options, configured, middleware, bootOptions, devMailbox, jobQueue,
                   testingProcessor, bootPc, closed,
                   subscriptions, events, jobs>>

\* ------------------------------------------------------ 'send-email' queue
\* The places (chain, index) of the jobs of the queue.
JobIds == {<<c, i>> \in (1..MaxChains) \X (1..2) : i <= Len(jobs[c])}

Running == {j \in JobIds : jobs[j[1]][j[2]].state = "running"}

\* The queue calls the process callback of createQueue for a pending job:
\* workerService.send(new EmailWorkerMessage(job.data)).subscribe(...).
ProcessJob(j) ==
    /\ j \in JobIds
    /\ jobs[j[1]][j[2]].state = "pending"
    /\ Cardinality(Running) < Concurrency
    /\ jobs' = [jobs EXCEPT ![j[1]][j[2]].state = "running"]
    /\ UNCHANGED <<options, configured, middleware, bootOptions, devMailbox, jobQueue,
                   testingProcessor, bootPc, closed,
                   subscriptions, events, chains>>

\* Mutant: the two callbacks are exchanged.
OnWorkerSwapped(job, outcome) ==
    [job EXCEPT !.worker = outcome,
                !.state = IF outcome = "complete" THEN "failed" ELSE "completed"]

\* Lines 206-207: complete: () => job.complete(), error: (err) => job.fail(err).
OnWorker(job, outcome) ==
    [job EXCEPT !.worker = outcome,
                !.state = IF outcome = "complete" THEN "completed" ELSE "failed"]

\* The observable of workerService.send completes or errors.
WorkerSettle(j, outcome) ==
    /\ j \in JobIds
    /\ jobs[j[1]][j[2]].state = "running"
    /\ jobs' = [jobs EXCEPT ![j[1]][j[2]] = OnWorker(@, outcome)]
    /\ UNCHANGED <<options, configured, middleware, bootOptions, devMailbox, jobQueue,
                   testingProcessor, bootPc, closed,
                   subscriptions, events, chains>>

Next ==
    \/ Configure
    \/ Bootstrap
    \/ \E created \in BOOLEAN : SelectBackend(created)
    \/ \E ok \in BOOLEAN : InitSettle(ok)
    \/ Close
    \/ \E tag \in EventTypes : Publish(tag)
    \/ \E h \in 1..2 : MockEvent(h)
    \/ \E c \in 1..MaxChains, out \in {"ok"} \cup Thrown : LoaderSettle(c, out)
    \/ \E c \in 1..MaxChains, out \in {"payload", "none"} \cup Thrown : HandleSettle(c, out)
    \/ \E c \in 1..MaxChains, out \in {"ok"} \cup Thrown : AddSettle(c, out)
    \/ \E c \in 1..MaxChains, out \in {"ok"} \cup Thrown : ProcessSettle(c, out)
    \/ \E j \in JobIds : ProcessJob(j)
    \/ \E j \in JobIds, outcome \in {"complete", "error"} : WorkerSettle(j, outcome)

\* The plugin with EmailPlugin.init called once, before configure; ReinitSpec
\* below has the later calls of init.
Spec == Init /\ [][Next]_vars

\* The plugin with the queue as its backend and no dev mailbox: options with
\* a transport other than 'testing'.  onVendureClose acts on the dev mailbox
\* alone and is left out.
QueueInit == Init /\ ~isDevModeOptions(options) /\ ~UseTestingProcessor(options)

QueueNext ==
    \/ Configure
    \/ Bootstrap
    \/ \E created \in BOOLEAN : SelectBackend(created)
    \/ \E tag \in EventTypes : Publish(tag)
    \/ \E c \in 1..MaxChains, out \in {"ok"} \cup Thrown : LoaderSettle(c, out)
    \/ \E c \in 1..MaxChains, out \in {"payload", "none"} \cup Thrown : HandleSettle(c, out)
    \/ \E c \in 1..MaxChains, out \in {"ok"} \cup Thrown : AddSettle(c, out)
    \/ \E j \in JobIds : ProcessJob(j)
    \/ \E j \in JobIds, outcome \in {"complete", "error"} : WorkerSettle(j, outcome)

\* The queue engine runs every pending job and the observable of
\* workerService.send completes or errors.
QueueSpec ==
    /\ QueueInit /\ [][QueueNext]_vars
    /\ \A c \in 1..MaxChains :
          /\ WF_vars(ProcessJob(<<c, 1>>))
          /\ WF_vars(\E outcome \in {"complete", "error"} : WorkerSettle(<<c, 1>>, outcome))

\* --------------------------------------------------- EmailPlugin.init
\* Lines 166-169: EmailPlugin.init(o) is called again, at any time, and
\* replaces the static options.
Reinit(o) ==
    /\ o # options
    /\ options' = o
    /\ UNCHANGED <<configured, middleware, bootOptions, devMailbox, jobQueue,
                   testingProcessor, bootPc, closed, subscriptions, events, chains, jobs>>

\* The options with one handler, for the plugin whose options are replaced.
ReinitOptions == {o \in EmailPluginOptions : Len(o.handlers) = 1}

ReinitInit == Init /\ options \in ReinitOptions

ReinitNext ==
    \/ \E o \in ReinitOptions : Reinit(o)
    \/ Configure
    \/ Bootstrap
    \/ \E created \in BOOLEAN : SelectBackend(created)
    \/ \E ok \in BOOLEAN : InitSettle(ok)
    \/ \E tag \in EventTypes : Publish(tag)
    \/ \E c \in 1..MaxChains, out \in {"ok"} \cup Thrown : LoaderSettle(c, out)
    \/ \E c \in 1..MaxChains, out \in {"payload", "none"} \cup Thrown : HandleSettle(c, out)

\* The plugin with EmailPlugin.init called again while it runs, up to the
\* call that hands a payload to its backend.
ReinitSpec == ReinitInit /\ [][ReinitNext]_vars

\* ================================================================ claims
Settled(c) == chains[c].pc \in {"resolved", "rejected"}

RECURSIVE ChainsOf(_, _)
\* The chains of event e from chain c on, in the order they started.
ChainsOf(e, c) ==
    IF c > Len(chains) THEN <<>>
    ELSE (IF chains[c].ev = e THEN <<c>> ELSE <<>>) \o ChainsOf(e, c + 1)

\* Every published event has started handleEvent once for every subscription
\* of its class, in the order of the subscriptions.
DispatchedToAllMatching ==
    \A e \in DOMAIN events :
        events[e].src = "bus" =>
            [k \in DOMAIN ChainsOf(e, 1) |-> chains[ChainsOf(e, 1)[k]].h]
                = Matching(subscriptions, events[e].tag)

\* Chain c enters the catch block for its loader or its handle in this step.
FailsNow(c) ==
    chains[c].failAt = "none" /\ chains'[c].failAt \in {"loader", "handle"}

\* C1 (failure isolation): every published event, also one published after a
\* handler has failed, is dispatched to every matching subscription; and the
\* step in which a loader or a handle fails changes nothing of any other
\* chain, of the subscriptions, of the backends or of the queue, so what the
\* other handlers deliver is decided by their own loader and handle alone.
C1_FailureIsolation ==
    /\ []DispatchedToAllMatching
    /\ [][\A c \in DOMAIN chains :
            FailsNow(c) =>
                /\ \A d \in DOMAIN chains : d # c => chains'[d] = chains[d]
                /\ subscriptions' = subscriptions
                /\ jobQueue' = jobQueue /\ testingProcessor' = testingProcessor
                /\ jobs' = jobs]_vars

\* C1 witness: a handler failed and another handler of the same event has
\* had its payload delivered.
C1_Witness ==
    \E c, d \in DOMAIN chains :
        /\ c # d /\ chains[c].ev = chains[d].ev
        /\ chains[c].failAt \in {"loader", "handle"}
        /\ chains[d].result = "payload"
        /\ chains[d].add = "ok" \/ chains[d].proc = "ok"

\* C2 as stated: every event invokes handle of every matching handler
\* exactly once, with data populated exactly for the async-data handlers.
C2_Original ==
    /\ DispatchedToAllMatching
    /\ \A c \in DOMAIN chains :
          /\ chains[c].handled <= 1
          /\ Settled(c) => chains[c].handled = 1
          /\ chains[c].handled = 1 => (chains[c].dataAtHandle <=> chains[c].async)

\* C2 amended: handle is invoked at most once for every matching handler and
\* event: exactly once, unless the handler's loader failed, and then not at
\* all; at the invocation data is populated exactly for async-data handlers.
C2_OneInvocationUnlessLoaderFails ==
    /\ DispatchedToAllMatching
    /\ \A c \in DOMAIN chains :
          /\ chains[c].handled <= 1
          /\ ~chains[c].async => chains[c].handled = 1
          /\ chains[c].pc = "load" => chains[c].handled = 0
          /\ chains[c].pc # "load" => (chains[c].handled = 1 <=> chains[c].failAt # "loader")
          /\ chains[c].handled = 1 => (chains[c].dataAtHandle <=> chains[c].async)

\* C2 witness: one event, an async-data handler invoked with data and a
\* plain handler invoked without, both dispatches settled.
C2_Witness ==
    \E c, d \in DOMAIN chains :
        /\ chains[c].ev = chains[d].ev
        /\ chains[c].async /\ chains[c].handled = 1 /\ chains[c].dataAtHandle
        /\ ~chains[d].async /\ chains[d].handled = 1 /\ ~chains[d].dataAtHandle
        /\ Settled(c) /\ Settled(d)

\* C3 (inline delivery is awaited): when handle returns a payload while the
\* testing processor is the backend, process is called and handleEvent stays
\* pending; and no handleEvent that called process has settled while that
\* process call was still running.
C3_InlineProcessAwaited ==
    /\ [](\A c \in DOMAIN chains :
            Settled(c) /\ chains[c].route = "process" => chains[c].proc \in {"ok", "failed"})
    /\ [][\A c \in DOMAIN chains :
            (/\ testingProcessor /\ ~jobQueue
             /\ chains[c].result = "pending" /\ chains'[c].result = "payload")
            => chains'[c].pc = "process" /\ chains'[c].proc = "running"]_vars

\* C3 witness: a dispatch in inline mode has settled after its process call
\* completed.
C3_Witness ==
    \E c \in DOMAIN chains :
        /\ testingProcessor /\ chains[c].pc = "resolved"
        /\ chains[c].result = "payload" /\ chains[c].proc = "ok"

Terminal == {"completed", "failed"}

\* The state of every job is the one its worker outcome selects.
JobsMatchWorker ==
    \A j \in JobIds :
        LET job == jobs[j[1]][j[2]]
        IN  /\ job.state = "completed" <=> job.worker = "complete"
            /\ job.state = "failed" <=> job.worker = "error"
            /\ job.state \in {"pending", "running"} <=> job.worker = "none"

C5_PayloadConsumedOnce ==
    \A c \in DOMAIN chains :
        chains[c].result = "payload" =>
            \/ chains[c].route = "add" /\ chains[c].add # "none" /\ chains[c].proc = "none"
            \/ chains[c].route = "process" /\ chains[c].proc # "none" /\ chains[c].add = "none"

\* C5 witness of the divergence: a payload that reached neither add nor process.
C5_PayloadDropped ==
    \E c \in DOMAIN chains : chains[c].result = "payload" /\ chains[c].route = "dropped"

RECURSIVE HandlersFor(_, _)
\* The handlers of the list hs that listen to the class tag, in list order.
HandlersFor(hs, tag) ==
    IF hs = <<>> THEN <<>>
    ELSE (IF Head(hs).event = tag THEN <<Head(hs)>> ELSE <<>>) \o HandlersFor(Tail(hs), tag)

\* C6 as stated: handle of an earlier-registered handler is invoked before
\* handle of a later-registered handler of the same event, whatever their kind.
C6_Original ==
    /\ DispatchedToAllMatching
    /\ \A c \in DOMAIN chains : chains[c].handled = 1 => chains[c].overtaken = 0

\* C6 amended: one occurrence of the event starts handleEvent for all its
\* handlers in registration order, also when an earlier one throws; a plain
\* handler's handle is invoked in that same run, so the plain handlers are
\* invoked in registration order, and only an async-data handler, whose
\* handle waits for its loader, can be invoked after a later-registered one.
C6_StartedInRegistrationOrder ==
    /\ \A e \in DOMAIN events :
          events[e].src = "bus" =>
              [k \in DOMAIN ChainsOf(e, 1) |->
                  LET ch == chains[ChainsOf(e, 1)[k]]
                  IN  [event |-> subscriptions[ch.h].event, async |-> ch.async]]
                  = HandlersFor(options.handlers, events[e].tag)
    /\ \A c \in DOMAIN chains :
          /\ ~chains[c].async => chains[c].handled = 1 /\ chains[c].overtaken = 0
          /\ chains[c].overtaken > 0 => chains[c].async

\* C6 witness: an async-data handler registered first, invoked after the
\* plain handler registered second, the plain one having thrown.
C6_Witness ==
    \E c, d \in DOMAIN chains :
        /\ c < d /\ chains[c].ev = chains[d].ev
        /\ chains[c].async /\ chains[c].handled = 1 /\ chains[c].overtaken = 1
        /\ ~chains[d].async /\ chains[d].failAt = "handle"

\* C7 as stated: a failing loader means no handle, no delivery and exactly
\* one logged error.
C7_LoaderFailureLoggedOnce ==
    \A c \in DOMAIN chains :
        chains[c].failAt = "loader" =>
            /\ chains[c].handled = 0
            /\ chains[c].route = "none" /\ chains[c].add = "none" /\ chains[c].proc = "none"
            /\ chains[c].logged = 1

\* C8 as stated: in inline mode a failing process call makes the promise of
\* handleEvent reject.
C8_Original ==
    \A c \in DOMAIN chains : chains[c].failAt = "process" => chains[c].pc = "rejected"

\* C8 amended: a failing process call is caught inside handleEvent: when it
\* carries an Error it is logged once and handleEvent resolves, the caller
\* seeing a normal completion; handleEvent rejects only when the rejection
\* carries undefined or null, and then nothing is logged.
C8_ProcessFailureCaught ==
    \A c \in DOMAIN chains :
        chains[c].failAt = "process" =>
            /\ chains[c].proc = "failed"
            /\ chains[c].thrown = "Error" => chains[c].pc = "resolved" /\ chains[c].logged = 1
            /\ chains[c].thrown = "nullish" => chains[c].pc = "rejected" /\ chains[c].logged = 0

\* C8 witness: process failed with an Error and handleEvent resolved.
C8_Witness ==
    \E c \in DOMAIN chains :
        /\ chains[c].failAt = "process" /\ chains[c].thrown = "Error"
        /\ chains[c].pc = "resolved"

\* C9 as stated: as many subscriptions as distinct event classes.
C9_Original ==
    bootPc # "start" =>
        Len(subscriptions) = Cardinality({options.handlers[i].event : i \in DOMAIN options.handlers})

\* C9 amended: starting the dispatcher makes one subscription for every
\* handler of the list, in list order, so handlers that share an event class
\* have a subscription each.
C9_OneSubscriptionPerHandler ==
    /\ bootPc = "start" => subscriptions = <<>>
    /\ bootPc # "start" => subscriptions = options.handlers

\* C9 witness: two handlers of one event class, two subscriptions.
C9_Witness ==
    /\ Len(subscriptions) = 2
    /\ subscriptions[1].event = subscriptions[2].event

\* C10: once onVendureBootstrap has completed exactly one of jobQueue and
\* testingProcessor is defined, the testing processor exactly for options
\* that are not dev-mode and have the testing transport; and no step taken
\* after that changes either of them.
C10_OneBackend ==
    /\ [](bootPc = "done" =>
            /\ jobQueue # testingProcessor
            /\ testingProcessor <=> (~isDevModeOptions(options) /\ options.transport = "testing"))
    /\ [][bootPc = "done" =>
            jobQueue' = jobQueue /\ testingProcessor' = testingProcessor]_vars

\* C10 witness: bootstrap completed with the testing processor, an event was
\* handled and the plugin closed.
C10_Witness ==
    /\ bootPc = "done" /\ testingProcessor /\ ~jobQueue /\ closed
    /\ \E c \in DOMAIN chains : Settled(c)

\* ------------------------------------------------------------------ C11
\* A chain that is waiting in its loader or in handle.
Hung(c) == c.pc \in {"load", "handle"}

\* C11: a loader or a handle that never returns blocks its own chain only:
\* whatever the other chains are waiting for, every chain that waits for its
\* loader, its handle, jobQueue.add or process can take its next step as soon
\* as that promise settles, so it runs through to the end of its delivery.
C11_HungChainBlocksOnlyItself ==
    \A c \in DOMAIN chains :
        /\ chains[c].pc = "load" => ENABLED LoaderSettle(c, "ok")
        /\ chains[c].pc = "handle" => ENABLED HandleSettle(c, "payload")
        /\ chains[c].add = "running" => ENABLED AddSettle(c, "ok")
        /\ chains[c].proc = "running" => ENABLED ProcessSettle(c, "ok")

\* A chain still waits in its loader or in handle while a chain of the same
\* event that started after it has handed its payload on and has ended.
C11_Witness ==
    \E c, d \in DOMAIN chains :
        /\ c < d
        /\ chains[c].ev = chains[d].ev
        /\ Hung(chains[c])
        /\ chains[d].pc = "resolved"
        /\ chains[d].add = "ok" \/ chains[d].proc = "ok"

\* ------------------------------------------------------------------ C12
\* C12: when onVendureClose has run, the dev mailbox is destroyed if and only
\* if serve was called on it during the bootstrap, whether the bootstrap
\* completed or failed after serve; destroy is called at no other time.
C12_DestroyedIffServed ==
    /\ closed => devMailbox = IF HasMailbox(bootOptions) THEN "destroyed" ELSE "undefined"
    /\ ~closed => devMailbox # "destroyed"

\* The plugin is torn down after a bootstrap that failed once serve had been
\* called, and the dev mailbox is destroyed.
C12_Witness ==
    /\ closed
    /\ bootPc = "failed"
    /\ HasMailbox(bootOptions)
    /\ devMailbox = "destroyed"

\* ------------------------------------------------------------------ C13
\* C13: when handle returns a falsy result the chain ends there: nothing is
\* added to the job queue, process is not called, nothing is logged and
\* handleEvent completes normally.
C13_FalsyResultEndsSilently ==
    \A c \in DOMAIN chains :
        chains[c].result = "none" =>
            /\ chains[c].pc = "resolved"
            /\ chains[c].route = "none"
            /\ chains[c].add = "none"
            /\ chains[c].proc = "none"
            /\ chains[c].logged = 0
            /\ chains[c].failAt = "none"
            /\ jobs[c] = <<>>

\* handle has returned a falsy result while a delivery backend was in place.
C13_Witness ==
    \E c \in DOMAIN chains :
        /\ chains[c].result = "none"
        /\ jobQueue \/ testingProcessor

\* ------------------------------------------------------------------ C14
\* C14: whenever a step of a chain fails, the error record that is logged
\* carries the type of the handler together with the message and the stack
\* of the error.  Refuted: the record carries the context 'EmailPlugin'.
C14_ErrorRecordCarriesType ==
    \A c \in DOMAIN chains :
        chains[c].logged > 0 => {"type", "message", "stack"} \subseteq chains[c].logRecord

\* A failure with an Error has been logged and the record has no type.
C14_LoggedWithoutType ==
    \E c \in DOMAIN chains :
        /\ chains[c].thrown = "Error"
        /\ chains[c].logged = 1
        /\ "type" \notin chains[c].logRecord

\* ------------------------------------------------------------------ C15
\* The chain was started for an event generated by the dev mailbox.
IsMock(c) == events[chains[c].ev].src = "mock"

\* The payload of the chain has been handed on for delivery.
Captured(ch) == ch.route \in {"add", "process"}

\* C15 as stated: the payloads of the generated events are captured in the
\* order the events were triggered: when a payload is captured, no event
\* triggered later has had its payload captured already.
C15_Original ==
    [][\A d \in DOMAIN chains :
          (IsMock(d) /\ ~Captured(chains[d]) /\ Captured(chains'[d])) =>
              \A c \in DOMAIN chains :
                  (c > d /\ IsMock(c)) => ~Captured(chains[c])]_vars

\* C15: no payload of a generated event is captured twice: the event has one
\* chain, the chain makes one delivery call and at most one job; and the
\* payload is captured in the step in which its own handle returns, so an
\* event triggered later is captured first only while the chain of the
\* earlier event still waits in its loader or in handle, or has ended without
\* a payload to capture.
C15_CapturedOnceWhenHandleReturns ==
    /\ [](\A c \in DOMAIN chains :
             IsMock(c) =>
                 /\ \A d \in DOMAIN chains : chains[d].ev = chains[c].ev => d = c
                 /\ ~(chains[c].add # "none" /\ chains[c].proc # "none")
                 /\ Len(jobs[c]) <= 1)
    /\ [][\A d \in DOMAIN chains :
            IsMock(d) =>
                /\ Captured(chains[d]) => chains'[d].route = chains[d].route
                /\ (~Captured(chains[d]) /\ Captured(chains'[d])) =>
                       /\ chains[d].pc = "handle"
                       /\ chains'[d].result = "payload"
                       /\ \A c \in DOMAIN chains :
                              (c < d /\ IsMock(c) /\ ~Captured(chains[c])) =>
                                  \/ Hung(chains[c])
                                  \/ chains[c].pc \in {"resolved", "rejected"}]_vars

\* Two generated events: the payload of the one triggered second has been
\* captured and its job is on the queue, the payload of the first is captured
\* after it.
C15_Witness ==
    \E c, d \in DOMAIN chains :
        /\ c < d /\ IsMock(c) /\ IsMock(d)
        /\ Captured(chains[c]) /\ Captured(chains[d])
        /\ chains[d].add = "ok"
        /\ chains[c].add = "running"
        /\ chains[c].overtaken = 0
        /\ chains[c].async

\* ------------------------------------------------------------------ C16
\* C16: the data of an event is assigned at most once, and never after a
\* handle has been invoked with the event.  Refuted: every async-data handler
\* of the event assigns event.data when its own loader resolves.
C16_DataSetOnce ==
    \A e \in DOMAIN events : events[e].writes <= 1

\* The data of an event has been assigned twice, the second time after handle
\* had been invoked with the event by another chain.
C16_DataOverwritten ==
    \E c, d \in DOMAIN chains :
        /\ c # d /\ chains[c].ev = chains[d].ev
        /\ chains[c].handled = 1 /\ chains[d].handled = 1
        /\ chains[c].pc = "handle"
        /\ events[chains[c].ev].writes = 2

\* ------------------------------------------------------------------ C17
\* C17: whatever the loader, handle or the delivery call raises, handleEvent
\* completes normally: no chain ends with a rejected promise.  Refuted: a
\* rejection that carries undefined or null makes the catch block throw.
C17_AllFailuresCaught ==
    \A c \in DOMAIN chains : chains[c].failAt # "none" => chains[c].pc = "resolved"

\* handle has failed and the promise of handleEvent is rejected.
C17_FailureEscapes ==
    \E c \in DOMAIN chains :
        /\ chains[c].failAt = "handle"
        /\ chains[c].thrown = "nullish"
        /\ chains[c].pc = "rejected"

\* ------------------------------------------------------------------ C18
\* C18: the steps of one chain follow one another: handle is invoked only
\* after the loader has completed, the delivery call starts only after handle
\* has returned its payload, and the chain ends only after the delivery call
\* has settled; no two of the steps are in progress together.
C18_StepsInSequence ==
    \A c \in DOMAIN chains :
        /\ chains[c].pc = "load" =>
               /\ chains[c].handled = 0 /\ chains[c].result = "pending"
               /\ chains[c].route = "none"
        /\ (chains[c].async /\ chains[c].handled > 0) => chains[c].dataAtHandle
        /\ chains[c].pc = "handle" =>
               /\ chains[c].handled = 1 /\ chains[c].result = "pending"
               /\ chains[c].route = "none"
               /\ chains[c].add = "none" /\ chains[c].proc = "none"
        /\ chains[c].route # "none" => chains[c].handled = 1 /\ chains[c].result = "payload"
        /\ chains[c].add = "running" <=> chains[c].pc = "add"
        /\ chains[c].proc = "running" <=> chains[c].pc = "process"

\* An async-data chain has run its loader, its handle and its delivery call
\* to the end.
C18_Witness ==
    \E c \in DOMAIN chains :
        /\ chains[c].async /\ chains[c].dataAtHandle
        /\ chains[c].result = "payload"
        /\ chains[c].add = "ok" \/ chains[c].proc = "ok"
        /\ chains[c].pc = "resolved"

\* ------------------------------------------------------------------ C19
\* C19: the configuration is read when the plugin is bootstrapped and not
\* again: after a later EmailPlugin.init with other options every handle
\* still receives the globalTemplateVars of the options the plugin was
\* bootstrapped with, and every payload still goes to the backend chosen from
\* those options.  Refuted: line 243 reads EmailPlugin.options.globalTemplateVars
\* at every dispatch.
C19_ConfigNotReread ==
    \A c \in DOMAIN chains :
        /\ chains[c].handled > 0 => chains[c].gvars = bootOptions.globalTemplateVars
        /\ chains[c].route = "process" => UseTestingProcessor(bootOptions)
        /\ chains[c].route = "add" => ~UseTestingProcessor(bootOptions)

\* After the bootstrap has completed and init has been called again, handle
\* has received the globalTemplateVars of the new options.
C19_RereadAfterInit ==
    \E c \in DOMAIN chains :
        /\ bootPc = "done"
        /\ options # bootOptions
        /\ chains[c].handled = 1
        /\ chains[c].gvars = options.globalTemplateVars
        /\ chains[c].gvars # bootOptions.globalTemplateVars

\* ------------------------------------------------------------------ C20
\* C20: with the options unchanged, configure has registered the 'mailbox'
\* proxy route if and only if onVendureBootstrap has started the dev mailbox,
\* both exactly for dev-mode options with a mailboxPort: there is never a route
\* without a mailbox nor a mailbox without its route, and configure adds at
\* most that one entry to the middleware.
C20_RouteIffBridge ==
    /\ middleware <= 1
    /\ ~configured => middleware = 0
    /\ configured =>
           (middleware = 1 <=> (isDevModeOptions(options) /\ options.mailboxPort))
    /\ bootPc # "start" =>
           /\ middleware = 1 <=> devMailbox # "undefined"
           /\ devMailbox # "undefined" <=>
                  (isDevModeOptions(options) /\ options.mailboxPort)

\* The route is registered and the dev mailbox serves behind it.
C20_Witness ==
    /\ configured
    /\ bootPc = "done"
    /\ middleware = 1
    /\ devMailbox = "serving"

====
